---- MODULE Spec2Model ----
(***************************************************************************)
(* Model of the SL interpreter front-end: the position-tracking Lexer      *)
(* (characters to tokens) and the Parser (two-token lookahead, recursive   *)
(* descent for statements, precedence climbing for expressions, error      *)
(* recovery by skipping to the next statement keyword).                    *)
(*                                                                         *)
(* Text is a sequence of one-character strings; a token literal is the     *)
(* sequence of characters it was cut from.  Positions are 0-based as in    *)
(* the source, so input[p] of the source is input[p + 1] here.             *)
(***************************************************************************)
EXTENDS Integers, Sequences, FiniteSets, TLC

VARIABLES source, lexer, currentToken, nextToken, ast, errors, stack, ret, status, result, calls,
          scanner, trace

vars == <<source, lexer, currentToken, nextToken, ast, errors, stack, ret, status, result, calls,
          scanner, trace>>

\* null / undefined of the source language
Null == [node |-> "null"]

Undefined == [node |-> "undefined"]

Min(a, b) == IF a < b THEN a ELSE b

(***************************************************************************)
(* Lexer                                                                   *)
(***************************************************************************)

LowerSeq == <<"a", "b", "c", "d", "e", "f", "g", "h", "i", "j", "k", "l", "m", "n", "o", "p", "q", "r", "s", "t", "u", "v", "w", "x", "y", "z">>

UpperSeq == <<"A", "B", "C", "D", "E", "F", "G", "H", "I", "J", "K", "L", "M", "N", "O", "P", "Q", "R", "S", "T", "U", "V", "W", "X", "Y", "Z">>

Digits == {"0", "1", "2", "3", "4", "5", "6", "7", "8", "9"}

Range(s) == {s[i] : i \in DOMAIN s}

\* String.prototype.toLowerCase, one character at a time
toLowerChar(c) == IF \E i \in DOMAIN UpperSeq : UpperSeq[i] = c
                  THEN LowerSeq[CHOOSE i \in DOMAIN UpperSeq : UpperSeq[i] = c]
                  ELSE c

\* a lookup of the lexeme as written
toLowerCase_AsWritten(s) == s

toLowerCase(s) == [i \in DOMAIN s |-> toLowerChar(s[i])]

\* the keywords table: lower-case word, token type
keywords ==
    {
       <<<<"v", "a", "r">>, "VAR">>,
       <<<<"v", "a", "r", "i", "a", "b", "l", "e", "s">>, "VARIABLES">>,
       <<<<"c", "o", "n", "s", "t">>, "CONST">>,
       <<<<"c", "o", "n", "s", "t", "a", "n", "t", "e", "s">>, "CONSTANTES">>,
       <<<<"t", "i", "p", "o", "s">>, "TIPOS">>,
       <<<<"t", "i", "p", "o">>, "TIPO">>,
       <<<<"s", "u", "b", "r", "u", "t", "i", "n", "a">>, "SUBRUTINA">>,
       <<<<"r", "e", "t", "o", "r", "n", "a">>, "RETORNA">>,
       <<<<"r", "e", "f">>, "REF">>,
       <<<<"i", "n", "i", "c", "i", "o">>, "INICIO">>,
       <<<<"f", "i", "n">>, "FIN">>,
       <<<<"p", "r", "o", "g", "r", "a", "m", "a">>, "PROGRAMA">>,
       <<<<"s", "i">>, "SI">>,
       <<<<"s", "i", "n", "o">>, "SINO">>,
       <<<<"m", "i", "e", "n", "t", "r", "a", "s">>, "MIENTRAS">>,
       <<<<"r", "e", "p", "e", "t", "i", "r">>, "REPETIR">>,
       <<<<"s", "a", "l", "i", "r">>, "SALIR">>,
       <<<<"p", "a", "s", "o">>, "PASO">>,
       <<<<"e", "v", "a", "l">>, "EVAL">>,
       <<<<"c", "a", "s", "o">>, "CASO">>,
       <<<<"l", "o", "g", "i", "c", "o">>, "LOGICO">>,
       <<<<"n", "u", "m", "e", "r", "i", "c", "o">>, "NUMERICO">>,
       <<<<"c", "a", "d", "e", "n", "a">>, "CADENA">>,
       <<<<"r", "e", "g", "i", "s", "t", "r", "o">>, "REGISTRO">>,
       <<<<"v", "e", "c", "t", "o", "r">>, "VECTOR">>,
       <<<<"m", "a", "t", "r", "i", "z">>, "MATRIZ">>,
       <<<<"a", "n", "d">>, "AND">>,
       <<<<"o", "r">>, "OR">>,
       <<<<"n", "o", "t">>, "NOT">>,
       <<<<"l", "i", "b">>, "LIB">>,
       <<<<"l", "i", "b", "e", "x", "t">>, "LIBEXT">>,
       <<<<"a", "r", "c", "h", "i", "v", "o">>, "ARCHIVO">>
    }

\* keywords is an object literal: a lookup of a name it does not define falls
\* through to Object.prototype.  Property name, the value found (as printed).
ObjectPrototype ==
    {
       <<<<"c", "o", "n", "s", "t", "r", "u", "c", "t", "o", "r">>, "[Function: Object]">>,
       <<<<"_", "_", "p", "r", "o", "t", "o", "_", "_">>, "[Object: null prototype] {}">>,
       <<<<"h", "a", "s", "O", "w", "n", "P", "r", "o", "p", "e", "r", "t", "y">>, "[Function: hasOwnProperty]">>,
       <<<<"i", "s", "P", "r", "o", "t", "o", "t", "y", "p", "e", "O", "f">>, "[Function: isPrototypeOf]">>,
       <<<<"p", "r", "o", "p", "e", "r", "t", "y", "I", "s", "E", "n", "u", "m", "e", "r", "a", "b", "l", "e">>, "[Function: propertyIsEnumerable]">>,
       <<<<"t", "o", "L", "o", "c", "a", "l", "e", "S", "t", "r", "i", "n", "g">>, "[Function: toLocaleString]">>,
       <<<<"t", "o", "S", "t", "r", "i", "n", "g">>, "[Function: toString]">>,
       <<<<"v", "a", "l", "u", "e", "O", "f">>, "[Function: valueOf]">>,
       <<<<"_", "_", "d", "e", "f", "i", "n", "e", "G", "e", "t", "t", "e", "r", "_", "_">>, "[Function: __defineGetter__]">>,
       <<<<"_", "_", "d", "e", "f", "i", "n", "e", "S", "e", "t", "t", "e", "r", "_", "_">>, "[Function: __defineSetter__]">>,
       <<<<"_", "_", "l", "o", "o", "k", "u", "p", "G", "e", "t", "t", "e", "r", "_", "_">>, "[Function: __lookupGetter__]">>,
       <<<<"_", "_", "l", "o", "o", "k", "u", "p", "S", "e", "t", "t", "e", "r", "_", "_">>, "[Function: __lookupSetter__]">>
    }

\* table[word]: an own property, else an inherited one, else undefined
hasProperty(table, word) == \E k \in table \cup ObjectPrototype : k[1] = word

getProperty(table, word) ==
    IF \E k \in table : k[1] = word
    THEN (CHOOSE k \in table : k[1] = word)[2]
    ELSE (CHOOSE k \in ObjectPrototype : k[1] = word)[2]

\* keywords[word] || "IDENTIFIER": every value that can be found is truthy
keywordType(word) == IF hasProperty(keywords, word) THEN getProperty(keywords, word)
                     ELSE "IDENTIFIER"

\* the single-character cases of the switch in nextToken: character, token type
symbols ==
    { <<";", "SEMICOLON">>, <<"\"", "DQUOTE">>, <<"'", "SQUOTE">>, <<"/", "SLASH">>,
      <<"*", "ASTERISK">>, <<"{", "LBRACE">>, <<"}", "RBRACE">>, <<"[", "LBRACKET">>,
      <<"]", "RBRACKET">>, <<"(", "LPAREN">>, <<")", "RPAREN">>, <<":", "COLON">>,
      <<"=", "ASSIGN">>, <<">", "GT">>, <<"<", "LT">>, <<"+", "PLUS">>,
      <<"-", "MINUS">>, <<"^", "POW">> }

isSymbol(ch) == \E s \in symbols : s[1] = ch

symbolType(ch) == (CHOOSE s \in symbols : s[1] = ch)[2]

isLetter(ch) == ch \in Range(LowerSeq) \cup Range(UpperSeq) \cup {"_"}

isDigit(ch) == ch \in Digits

Token(type, literal, row, column) ==
    [type |-> type, literal |-> literal, lineNumber |-> row, column |-> column]

peekChar(lx) == IF lx.readPosition >= Len(lx.input) THEN "" ELSE lx.input[lx.readPosition + 1]

readChar(lx) ==
    [lx EXCEPT !.currentChar = IF lx.readPosition >= Len(lx.input) THEN ""
                                ELSE lx.input[lx.readPosition + 1],
               !.column = lx.readPosition,
               !.readPosition = lx.readPosition + 1]

\* new Lexer(input)
NewLexer(text) ==
    readChar([input |-> text, readPosition |-> 0, currentChar |-> "", column |-> 1, currentLine |-> 1])

RECURSIVE skipWhitespace(_)
skipWhitespace(lx) ==
    IF lx.currentChar \in {" ", "\t", "\r"} THEN skipWhitespace(readChar(lx)) ELSE lx

RECURSIVE skipLine(_)
skipLine(lx) ==
    IF lx.currentChar # "\n" /\ lx.currentChar # "" THEN skipLine(readChar(lx)) ELSE lx

skipComments(lx) ==
    IF lx.currentChar = "/" /\ peekChar(lx) = "/"
    THEN skipWhitespace(readChar(skipLine(readChar(lx))))
    ELSE lx

\* input.slice(start, end)
slice(text, start, end) == SubSeq(text, start + 1, Min(end, Len(text)))

RECURSIVE readIdentifierLoop(_)
readIdentifierLoop(lx) ==
    IF isLetter(lx.currentChar) \/ isDigit(lx.currentChar)
    THEN readIdentifierLoop(readChar(lx)) ELSE lx

readIdentifier(lx) ==
    LET after == readIdentifierLoop(lx)
    IN  [lexer |-> after, literal |-> slice(lx.input, lx.column, after.column)]

RECURSIVE readNumberLoop(_)
readNumberLoop(lx) ==
    IF isDigit(lx.currentChar) THEN readNumberLoop(readChar(lx)) ELSE lx

readNumber(lx) ==
    LET after == readNumberLoop(lx)
    IN  [lexer |-> after, literal |-> slice(lx.input, lx.column, after.column)]

newToken(lx, type, ch) == Token(type, ch, lx.currentLine, lx.column - Len(ch))

Disallowed == {"LIB", "LIBEXT", "ARCHIVO"}

\* Lexer.nextToken: the scanner after the call, the token returned, or threw
LexNextToken(lx0) ==
    LET lx == skipComments(skipWhitespace(lx0))
        ch == lx.currentChar
    IN  IF isSymbol(ch)
        THEN [lexer |-> readChar(lx), tok |-> newToken(lx, symbolType(ch), <<ch>>), threw |-> FALSE]
        ELSE IF ch = ""
        THEN [lexer |-> readChar(lx), tok |-> newToken(lx, "EOF", <<>>), threw |-> FALSE]
        ELSE IF ch = "\n"
        THEN [lexer |-> readChar([lx EXCEPT !.currentLine = lx.currentLine + 1, !.column = 0]),
              tok |-> newToken(lx, "NEWLINE", <<ch>>), threw |-> FALSE]
        ELSE IF isLetter(ch)
        THEN LET r == readIdentifier(lx)
                 type == keywordType(toLowerCase(r.literal))
             IN  IF type \in Disallowed
                 THEN [lexer |-> r.lexer, tok |-> Null, threw |-> TRUE]
                 ELSE [lexer |-> r.lexer, tok |-> newToken(r.lexer, type, r.literal), threw |-> FALSE]
        ELSE IF isDigit(ch)
        THEN LET r == readNumber(lx)
             IN  [lexer |-> r.lexer, tok |-> newToken(r.lexer, "NUMBER", r.literal), threw |-> FALSE]
        ELSE [lexer |-> lx, tok |-> newToken(lx, "ILLEGAL", <<ch>>), threw |-> FALSE]

(***************************************************************************)
(* The earlier Lexer (lexer.ts).  Its tokens carry one position, pos; it   *)
(* keeps no line and column, and it offers lookAhead.  The character       *)
(* classes, the symbol table and the slicing are those of the later Lexer. *)
(***************************************************************************)

\* its keywords table: the later table without salir
L1_keywords == {k \in keywords : k[2] # "SALIR"}

L1_keywordType(word) == IF hasProperty(L1_keywords, word) THEN getProperty(L1_keywords, word)
                        ELSE "IDENTIFIER"

L1_Token(type, literal, pos) == [type |-> type, literal |-> literal, pos |-> pos]

L1_peekChar(sc) == IF sc.readPosition >= Len(sc.input) THEN "" ELSE sc.input[sc.readPosition + 1]

\* a scanner that starts over once it has delivered the end of the text
L1_readChar_StartOver(sc) ==
    IF sc.ch = "" /\ sc.readPosition > Len(sc.input) /\ sc.input # <<>>
    THEN [sc EXCEPT !.ch = sc.input[1], !.position = 0, !.readPosition = 1]
    ELSE [sc EXCEPT !.ch = IF sc.readPosition >= Len(sc.input) THEN ""
                           ELSE sc.input[sc.readPosition + 1],
                    !.position = sc.readPosition,
                    !.readPosition = sc.readPosition + 1]

L1_readChar(sc) ==
    [sc EXCEPT !.ch = IF sc.readPosition >= Len(sc.input) THEN ""
                       ELSE sc.input[sc.readPosition + 1],
               !.position = sc.readPosition,
               !.readPosition = sc.readPosition + 1]

\* new Lexer(input)
L1_NewLexer(text) ==
    L1_readChar([input |-> text, position |-> 0, readPosition |-> 0, ch |-> ""])

RECURSIVE L1_skipWhitespace(_)
L1_skipWhitespace(sc) ==
    IF sc.ch \in {" ", "\t", "\r"} THEN L1_skipWhitespace(L1_readChar(sc)) ELSE sc

RECURSIVE L1_skipLine(_)
L1_skipLine(sc) ==
    IF sc.ch # "\n" /\ sc.ch # "" THEN L1_skipLine(L1_readChar(sc)) ELSE sc

\* the line-comment step at the head of nextToken
L1_skipComments(sc) ==
    IF sc.ch = "/" /\ L1_peekChar(sc) = "/"
    THEN L1_skipWhitespace(L1_readChar(L1_skipLine(L1_readChar(sc))))
    ELSE sc

RECURSIVE L1_readIdentifierLoop(_)
L1_readIdentifierLoop(sc) ==
    IF isLetter(sc.ch) \/ isDigit(sc.ch) THEN L1_readIdentifierLoop(L1_readChar(sc)) ELSE sc

L1_readIdentifier(sc) ==
    LET after == L1_readIdentifierLoop(sc)
    IN  [lexer |-> after, literal |-> slice(sc.input, sc.position, after.position)]

RECURSIVE L1_readNumberLoop(_)
L1_readNumberLoop(sc) ==
    IF isDigit(sc.ch) THEN L1_readNumberLoop(L1_readChar(sc)) ELSE sc

L1_readNumber(sc) ==
    LET after == L1_readNumberLoop(sc)
    IN  [lexer |-> after, literal |-> slice(sc.input, sc.position, after.position)]

L1_newToken(sc, type, ch) == L1_Token(type, ch, sc.position)

\* Lexer.nextToken: the scanner after the call, the token returned, or threw
L1_nextToken(sc0) ==
    LET sc == L1_skipComments(L1_skipWhitespace(sc0))
        ch == sc.ch
    IN  IF isSymbol(ch)
        THEN [lexer |-> L1_readChar(sc), tok |-> L1_newToken(sc, symbolType(ch), <<ch>>),
              threw |-> FALSE]
        ELSE IF ch = ""
        THEN [lexer |-> L1_readChar(sc), tok |-> L1_Token("EOF", <<>>, sc.position),
              threw |-> FALSE]
        ELSE IF ch = "\n"
        THEN [lexer |-> L1_readChar(sc), tok |-> L1_newToken(sc, "NEWLINE", <<ch>>),
              threw |-> FALSE]
        ELSE IF isLetter(ch)
        THEN LET r == L1_readIdentifier(sc)
                 type == L1_keywordType(toLowerCase(r.literal))
             IN  IF type \in Disallowed
                 THEN [lexer |-> r.lexer, tok |-> Null, threw |-> TRUE]
                 ELSE [lexer |-> r.lexer, tok |-> L1_Token(type, r.literal, r.lexer.position),
                       threw |-> FALSE]
        ELSE IF isDigit(ch)
        THEN LET r == L1_readNumber(sc)
             IN  [lexer |-> r.lexer, tok |-> L1_Token("NUMBER", r.literal, r.lexer.position),
                  threw |-> FALSE]
        ELSE [lexer |-> L1_readChar(sc), tok |-> L1_newToken(sc, "ILLEGAL", <<ch>>),
              threw |-> FALSE]

\* Lexer.lookAhead: return this.nextToken()
L1_lookAhead(sc) == L1_nextToken(sc)

(***************************************************************************)
(* Source texts.  A text is written as a sequence of words, joined by one  *)
(* space; a word is a sequence of characters.                              *)
(***************************************************************************)

MaxWords == 3

MaxDecls == 2

MaxOperands == 4

MaxCalls == 2

\* var blocks that follow one another in a text
MaxBlocks == 2

\* words of a text given to the earlier Lexer alone
MaxLexWords == 2

\* calls of nextToken and lookAhead on one Lexer
MaxScans == 4

wVar == <<"v", "a", "r">>

wVariables == <<"v", "a", "r", "i", "a", "b", "l", "e", "s">>

wConst == <<"c", "o", "n", "s", "t">>

wNumerico == <<"n", "u", "m", "e", "r", "i", "c", "o">>

wNL == <<"\n">>

wX == <<"x">>

wY == <<"y", "1">>

wEq == <<"=">>

wColon == <<":">>

wAt == <<"@">>

wLt == <<"<">>

wSemicolon == <<";">>

wLib == <<"l", "i", "b">>

w1 == <<"1">>

w23 == <<"2", "3">>

w123 == <<"1", "2", "3">>

wPlus == <<"+">>

wMinus == <<"-">>

wTimes == <<"*">>

wDiv == <<"/">>

wPow == <<"^">>

wVarUpper == <<"V", "A", "R">>

wFoo == <<"_", "f", "o", "o">>

wConstructor == <<"c", "o", "n", "s", "t", "r", "u", "c", "t", "o", "r">>

wLibMixed == <<"L", "i", "B">>

wLibext == <<"l", "i", "b", "e", "x", "t">>

wArchivo == <<"a", "r", "c", "h", "i", "v", "o">>

wLibx == <<"l", "i", "b", "x">>

wDollar == <<"$">>

wSlashes == <<"/", "/">>

\* the words written one after the other with gap between them
RECURSIVE Join(_, _)
Join(words, gap) ==
    IF words = <<>> THEN <<>>
    ELSE IF Len(words) = 1 THEN words[1]
    ELSE words[1] \o gap \o Join(Tail(words), gap)

\* words that stay apart when written with nothing between them
Separable(words) ==
    \A i \in 1..(Len(words) - 1) :
        /\ ~(   (isLetter(words[i][1]) \/ isDigit(words[i][1]))
              /\ (isLetter(words[i + 1][1]) \/ isDigit(words[i + 1][1])))
        /\ ~(words[i] = <<"/">> /\ words[i + 1] = <<"/">>)

RECURSIVE Flatten(_)
Flatten(seqs) == IF seqs = <<>> THEN <<>> ELSE seqs[1] \o Flatten(Tail(seqs))

SeqsUpTo(S, n) == UNION {[1..k -> S] : k \in 0..n}

SeqsFromTo(S, m, n) == UNION {[1..k -> S] : k \in m..n}

Repeat(w, n) == [i \in 1..n |-> w]

\* any short text over a few words
GenericWords == {wVar, wNL, wX, wEq, w1, wPlus, wAt, wConst}

Generic == SeqsUpTo(GenericWords, MaxWords)

\* ident = number
Idents == {wX, wY}

Numbers == {w1, w23}

SimpleDecls == {<<i, wEq, n>> : i \in Idents, n \in Numbers}

\* how a block is laid out: a leading newline, the keyword, the newlines after
\* it, the newlines between declarations, a trailing newline
Layouts ==
    { [lead |-> 0, kw |-> wVar, after |-> 1, between |-> 1, trail |-> 0],
      [lead |-> 1, kw |-> wVar, after |-> 1, between |-> 1, trail |-> 1],
      [lead |-> 0, kw |-> wVariables, after |-> 2, between |-> 1, trail |-> 0],
      [lead |-> 0, kw |-> wVar, after |-> 1, between |-> 2, trail |-> 2] }

RECURSIVE Lines(_, _)
Lines(decls, between) ==
    IF Len(decls) = 1 THEN decls[1]
    ELSE decls[1] \o Repeat(wNL, between) \o Lines(Tail(decls), between)

Block(lay, decls) ==
    Repeat(wNL, lay.lead) \o <<lay.kw>> \o Repeat(wNL, lay.after)
        \o Lines(decls, lay.between) \o Repeat(wNL, lay.trail)

SimpleVarBlocks ==
    {Block(lay, ds) : lay \in Layouts, ds \in SeqsFromTo(SimpleDecls, 1, MaxDecls)}

\* var NEWLINE x = a op b op c ...: the operands are 1, 2, 3, ... in order
DigitSeq == <<"1", "2", "3", "4", "5", "6", "7", "8", "9">>

Operand(i) == <<DigitSeq[i]>>

RECURSIVE ExprWords(_, _)
ExprWords(ops, i) ==
    IF i > Len(ops) THEN <<Operand(i)>>
    ELSE <<Operand(i), ops[i]>> \o ExprWords(ops, i + 1)

ArithOps == {wPlus, wMinus, wTimes, wDiv}

ExprHead == <<wVar, wNL, wX, wEq>>

Expressions ==
    {ExprHead \o ExprWords(ops, 1) : ops \in SeqsUpTo(ArithOps \cup {wPow}, MaxOperands - 1)}

\* a block in which one declaration lacks its '=': ident number
WithoutEqual(decls, j) == [decls EXCEPT ![j] = <<decls[j][1], decls[j][3]>>]

MissingEqualBlocks ==
    UNION {{Block(lay, WithoutEqual(ds, j)) : lay \in Layouts, j \in 1..Len(ds)} :
              ds \in SeqsFromTo(SimpleDecls, 1, MaxDecls)}

\* a malformed construct followed by a well-formed block
MalformedConstructs ==
    { <<wVar, wX, wEq, w1, wNL>>, <<wVar, wX, wEq, w1>>,
      <<wVar, wNL, wX, w1, wNL>>, <<wVar, wNL, wX, wNL>>, <<wVar, wNL, wX>>,
      <<wVar, wNL, wX, wEq, wTimes, wNL>>, <<wVar, wNL, wX, wEq, w1, wPlus, wTimes, wNL>>,
      <<wVar, wNL, wX, wEq>>,
      <<wX, wNL>>, <<w1>>, <<wPlus, w1, wNL>>, <<wAt>> }

PlainLayout == [lead |-> 0, kw |-> wVar, after |-> 1, between |-> 1, trail |-> 0]

LaterBlocks == {Block(PlainLayout, ds) : ds \in SeqsFromTo(SimpleDecls, 1, MaxDecls)}

RecoveryInputs == {m \o b : m \in MalformedConstructs, b \in LaterBlocks}

\* var blocks one after the other, each closed by a newline; the last one
\* with and without its newline.  An initializer is a number or a name.
BlockDecls ==
    { <<<<wX, wEq, w1>>>>, <<<<wY, wEq, w23>>>>, <<<<wX, wEq, w1>>, <<wY, wEq, w23>>>>,
      <<<<wX, wEq, wY>>>> }

ClosedBlocks ==
    {Block([lead |-> 0, kw |-> kw, after |-> 1, between |-> 1, trail |-> 1], ds) :
        kw \in {wVar, wVariables}, ds \in BlockDecls}

ConsecutiveBlocks ==
    UNION {{Flatten(bs), SubSeq(Flatten(bs), 1, Len(Flatten(bs)) - 1)} :
              bs \in SeqsFromTo(ClosedBlocks, 1, MaxBlocks)}

\* var NEWLINE x = a op b with one or two newlines between op and b
NewLineAfterOperator ==
    {ExprHead \o <<w1, op>> \o Repeat(wNL, n) \o <<w23>> : op \in ArithOps, n \in 1..2}

\* initializers that end with an identifier
IdentifierEndings == {<<wY>>, <<w1, wPlus, wY>>}

\* var NEWLINE x = initializer, the last line of the text with or without
\* the newline that ends it
IdentifierEnded ==
    {ExprHead \o e \o t : e \in IdentifierEndings, t \in {<<>>, <<wNL>>}}

\* var, a comment on the same line, and one declaration on the next line
CommentAfterVar ==
    {<<kw, wSlashes>> \o c \o <<wNL, wX, wEq, w1>> \o t :
        kw \in {wVar, wVariables}, c \in {<<>>, <<wY>>}, t \in {<<>>, <<wNL>>}}

\* characters that start no token rule, one per word
IllegalTexts == SeqsFromTo({wAt, wDollar}, 1, MaxWords)

\* var ident = number on one line, after lead newlines
VarWithoutNewLine ==
    {Repeat(wNL, lead) \o <<kw, i, wEq, n>> :
        lead \in 0..1, kw \in {wVar, wVariables}, i \in Idents, n \in Numbers}

\* a declaration with ':' and something that is no type name
BadTypeAnnotations ==
    {Repeat(wNL, lead) \o <<wVar, wNL, i, wColon, t, wEq, w1>> :
        lead \in 0..1, i \in Idents, t \in {w123, w1}}

TypeAnnotations == {<<wVar, wNL, i, wColon, wNumerico, wEq, w1>> : i \in Idents}

\* a disallowed keyword, a relational operator, a semicolon
OtherInputs ==
    { <<wLib>>, <<wX, wLib>>, <<wVar, wNL, wX, wEq, wLib>>, <<wVar, wNL, wX, wEq, w1, wNL, wLib>>,
      <<wVar, wNL, wX, wEq, w1, wLt, w23>>, <<wVar, wNL, wX, wEq, w1, wSemicolon, wPlus, w23>>,
      <<wVar, wNL, wX, wEq, wY>>, <<wVar, wNL, wX, wEq, w1, wPlus, wNL, w23>>,
      <<wAt, wLib>>, <<wVar, wNL, wX, wEq, w1, wNL, wAt, wNL, wLib>>,
      <<wX, wEq, w1, wNL, wLib>>,
      <<wVar, wNL, wX, wEq, w1, wNL, wPlus, w23, wNL, wVar, wNL, wY, wEq, w1>> }

Inputs ==
    Generic \cup SimpleVarBlocks \cup Expressions \cup MissingEqualBlocks \cup RecoveryInputs
        \cup VarWithoutNewLine \cup BadTypeAnnotations \cup TypeAnnotations \cup OtherInputs
        \cup ConsecutiveBlocks \cup NewLineAfterOperator \cup IllegalTexts
        \cup IdentifierEnded \cup CommentAfterVar

\* texts for the earlier Lexer: words joined by one space
LexWords ==
    {wVar, wVarUpper, wX, wY, wFoo, wConstructor, wLib, wLibMixed, wLibx, w1, wAt, wDollar,
     wPlus, wNL}

\* String.prototype.toUpperCase, one character at a time
toUpperChar(c) == IF \E i \in DOMAIN LowerSeq : LowerSeq[i] = c
                  THEN UpperSeq[CHOOSE i \in DOMAIN LowerSeq : LowerSeq[i] = c]
                  ELSE c

\* a word in every mix of upper and lower case
Casings(word) ==
    {[i \in DOMAIN word |-> IF i \in U THEN toUpperChar(word[i]) ELSE word[i]] :
        U \in SUBSET DOMAIN word}

DisallowedWords == {wLib, wLibext, wArchivo}

CasedInputs == {<<c>> : c \in UNION {Casings(w) : w \in DisallowedWords}}

\* a line comment: the marker alone or with a word after it
CommentBodies == {<<wSlashes>>, <<wSlashes, wY>>}

\* one or two consecutive comment lines, the last one with or without the
\* newline that ends it
CommentLines ==
    {c \o t : c \in CommentBodies, t \in {<<>>, <<wNL>>}}
        \cup {c \o <<wNL>> \o d \o t : c \in CommentBodies, d \in CommentBodies,
                                        t \in {<<>>, <<wNL>>}}

\* texts with comments: nothing or a word before them, nothing or a word after
CommentTexts ==
    {a \o c \o e : a \in {<<>>, <<wX>>, <<wVar>>}, c \in CommentLines, e \in {<<>>, <<w1>>}}

LexInputs == SeqsUpTo(LexWords, MaxLexWords) \cup CasedInputs \cup CommentTexts

(***************************************************************************)
(* Syntax tree and diagnostics                                             *)
(***************************************************************************)

Identifier(token) == [node |-> "Identifier", token |-> token, value |-> token.literal]

NumberNode(token) == [node |-> "NumberNode", token |-> token, value |-> token.literal]

\* value and type are declared without initializer: undefined until assigned
VarDeclaration(token) ==
    [node |-> "VarDeclaration", token |-> token, identifier |-> Identifier(token),
     value |-> Undefined, type |-> Undefined]

VariablesStatement(token) ==
    [node |-> "VariablesStatement", token |-> token, value |-> token.literal,
     declarations |-> <<>>]

InfixExpression(token, left) ==
    [node |-> "InfixExpression", token |-> token, operator |-> token.literal,
     left |-> left, right |-> Undefined]

\* row: token.row; a property the token does not have reads as undefined, which
\* is modelled as the field being absent
newParsingError(type, message, token) ==
    LET e == [type |-> type, token |-> token, column |-> token.column, message |-> message]
    IN  IF "row" \in DOMAIN token THEN [f \in DOMAIN e \cup {"row"} |->
                                          IF f = "row" THEN token.row ELSE e[f]]
        ELSE e

(***************************************************************************)
(* Parser                                                                  *)
(***************************************************************************)

MIN == 0

EQUALS == 1

GREATLESS == 2

ADITION == 3

DIVISION == 4

PREFIX == 5

PARENTESIS == 6

MAX == 7

\* a precedence table without levels: every operator binds alike
getPrecedence_OneLevel(token) ==
    IF token.type \in {"LT", "GT", "PLUS", "MINUS", "ASTERISK", "SLASH", "LPAREN", "NOT"}
    THEN ADITION ELSE MIN

getPrecedence(token) ==
    CASE token.type \in {"LT", "GT"} -> GREATLESS
      [] token.type \in {"PLUS", "MINUS"} -> ADITION
      [] token.type \in {"ASTERISK", "SLASH"} -> DIVISION
      [] token.type = "LPAREN" -> PARENTESIS
      [] token.type = "NOT" -> PREFIX
      [] OTHER -> MIN

\* the token kinds registered in the constructor
prefixTable == {"IDENTIFIER", "NUMBER"}

infixTable == {"PLUS", "MINUS", "SLASH", "ASTERISK", "POW"}

\* prefix(): parseIdentifier or parseNumber, by the kind it was registered for
parsePrefix(token) == IF token.type = "IDENTIFIER" THEN Identifier(token) ELSE NumberNode(token)

isStatement(type) ==
    type \in {"EOF", "VARIABLES", "VAR", "CONSTANTES", "CONST", "RETORNA", "SUBRUTINA",
              "TIPOS", "TIPO", "INICIO"}

\* The token state of the parser: the scanner and the two tokens held.
\* threw records that the scanner raised its fatal failure.
P == [lexer |-> lexer, currentToken |-> currentToken, nextToken |-> nextToken, threw |-> FALSE]

\* a parser that catches the failure of the scanner and goes on as at the end
\* of the text
advanceToken_Caught(p) ==
    LET r == LexNextToken(p.lexer)
    IN  [lexer |-> r.lexer, currentToken |-> p.nextToken,
         nextToken |-> IF r.threw THEN newToken(r.lexer, "EOF", <<>>) ELSE r.tok,
         threw |-> FALSE]

\* advanceToken that pulls two tokens from the scanner and drops the first
advanceToken_SkipOne(p) ==
    IF p.threw THEN p
    ELSE LET r1 == LexNextToken(p.lexer)
             r == IF r1.threw THEN r1 ELSE LexNextToken(r1.lexer)
         IN  [lexer |-> r.lexer, currentToken |-> p.nextToken,
              nextToken |-> IF r.threw THEN p.nextToken ELSE r.tok, threw |-> r.threw]

\* currentToken = nextToken; nextToken = lexer.nextToken(): the assignment to
\* currentToken is done before the scanner can throw
advanceToken(p) ==
    IF p.threw THEN p
    ELSE LET r == LexNextToken(p.lexer)
         IN  [lexer |-> r.lexer, currentToken |-> p.nextToken,
              nextToken |-> IF r.threw THEN p.nextToken ELSE r.tok, threw |-> r.threw]

\* the value parseProgram returns
\* parseProgram as the earlier parser had it: return false
hasErrors_AlwaysFalse(errs) == FALSE

hasErrors(errs) == Len(errs) # 0

\* new Parser(new Lexer(text)): the first two tokens are loaded
NewParser(text) ==
    LET r1 == LexNextToken(NewLexer(text))
        r2 == LexNextToken(r1.lexer)
    IN  IF r1.threw THEN [lexer |-> r1.lexer, currentToken |-> Null, nextToken |-> Null, threw |-> TRUE]
        ELSE IF r2.threw THEN [lexer |-> r2.lexer, currentToken |-> r1.tok, nextToken |-> Null, threw |-> TRUE]
        ELSE [lexer |-> r2.lexer, currentToken |-> r1.tok, nextToken |-> r2.tok, threw |-> FALSE]

(***************************************************************************)
(* The call stack.  A frame is the function, the point it will continue    *)
(* at, and its locals; the top of the stack is its last element.  ret      *)
(* holds the value the last return delivered.                              *)
(***************************************************************************)

Frame(fn, pc, locals) == [fn |-> fn, pc |-> pc, l |-> locals]

NoLocals == [none |-> TRUE]

Top == stack[Len(stack)]

Running(fn, pc) == status = "running" /\ Len(stack) > 0 /\ Top.fn = fn /\ Top.pc = pc

Popped == SubSeq(stack, 1, Len(stack) - 1)

\* the top frame moved to pc with locals
Goto(pc, locals) == [stack EXCEPT ![Len(stack)] = Frame(Top.fn, pc, locals)]

\* the top frame moved to pc, and a call of fn on top of it
Call(pc, locals, fn, args) == Append(Goto(pc, locals), Frame(fn, "start", args))

\* One step of the parser: the token state p it leaves, and the stack, return
\* value, statements and diagnostics when the scanner did not throw.  A throw
\* unwinds the whole stack: nothing in the parser catches it.
Step(p, stk, r, a, e) ==
    /\ lexer' = p.lexer
    /\ currentToken' = p.currentToken
    /\ nextToken' = p.nextToken
    /\ IF p.threw
       THEN stack' = <<>> /\ status' = "threw" /\ UNCHANGED <<ret, errors>> /\ ast' = a
       ELSE stack' = stk /\ ret' = r /\ ast' = a /\ errors' = e /\ UNCHANGED status
    /\ UNCHANGED <<source, result, calls, scanner, trace>>

\* a diagnostics list that keeps only the latest entry
pushError_Latest(error) == <<error>>

\* errors.push(error) of pushErrorAndRecover
pushError(error) == Append(errors, error)

(***************************************************************************)
(* parseProgram                                                            *)
(***************************************************************************)

ParseProgramCall ==
    /\ status \in {"ready", "returned"}
    /\ calls < MaxCalls
    /\ calls' = calls + 1
    /\ status' = "running"
    /\ stack' = <<Frame("parseProgram", "while", NoLocals)>>
    /\ UNCHANGED <<source, lexer, currentToken, nextToken, ast, errors, ret, result, scanner, trace>>

ParseProgramWhile ==
    /\ Running("parseProgram", "while")
    /\ IF nextToken.type # "EOF"
       THEN /\ stack' = Call("afterStatement", NoLocals, "parseStatement", NoLocals)
            /\ UNCHANGED <<status, result>>
       ELSE /\ stack' = <<>>
            /\ status' = "returned"
            /\ result' = hasErrors(errors)
    /\ UNCHANGED <<source, lexer, currentToken, nextToken, ast, errors, ret, calls, scanner, trace>>

ParseProgramAfterStatement ==
    /\ Running("parseProgram", "afterStatement")
    /\ Step(advanceToken(P), Goto("while", NoLocals), ret,
            IF ret.node # "null" THEN Append(ast, ret) ELSE ast, errors)

(***************************************************************************)
(* parseStatement                                                          *)
(***************************************************************************)

ParseStatement ==
    /\ Running("parseStatement", "start")
    /\ CASE currentToken.type \in {"NEWLINE", "CONSTANTES", "CONST", "RETORNA", "SUBRUTINA",
                                   "TIPOS", "TIPO", "INICIO"} ->
                Step(P, Popped, Null, ast, errors)
         [] currentToken.type \in {"VARIABLES", "VAR"} ->
                \* return this.parseVariablesDeclaration()
                Step(P, Append(Popped, Frame("parseVariablesDeclaration", "start", NoLocals)),
                     ret, ast, errors)
         [] OTHER ->
                Step(P, Call("return", NoLocals, "skipUntilNextStatement", NoLocals), ret, ast,
                     pushError(newParsingError("UnexpectedExpression",
                         <<"Unexpected expression: ", currentToken.literal, currentToken.type>>,
                         currentToken)))

ParseStatementReturn ==
    /\ Running("parseStatement", "return")
    /\ Step(P, Popped, Null, ast, errors)

(***************************************************************************)
(* skipUntilNextStatement, consumeNewLines                                 *)
(***************************************************************************)

\* skipUntilNextStatement that also stops in front of a NEWLINE
SkipUntilNextStatement_StopAtNewLine ==
    /\ Running("skipUntilNextStatement", "start")
    /\ IF ~isStatement(nextToken.type) /\ nextToken.type # "NEWLINE"
       THEN Step(advanceToken(P), stack, ret, ast, errors)
       ELSE Step(P, Popped, ret, ast, errors)

SkipUntilNextStatement ==
    /\ Running("skipUntilNextStatement", "start")
    /\ IF ~isStatement(nextToken.type)
       THEN Step(advanceToken(P), stack, ret, ast, errors)
       ELSE Step(P, Popped, ret, ast, errors)

ConsumeNewLines ==
    /\ Running("consumeNewLines", "start")
    /\ IF nextToken.type = "NEWLINE"
       THEN Step(advanceToken(P), stack, ret, ast, errors)
       ELSE Step(P, Popped, ret, ast, errors)

(***************************************************************************)
(* parseVariablesDeclaration                                               *)
(***************************************************************************)

\* advanceToken(); consumeNewLines(): up to the call of consumeNewLines
SkipOverVar(errs) ==
    Step(advanceToken(P), Call("afterNewLines", NoLocals, "consumeNewLines", NoLocals),
         ret, ast, errs)

\* the diagnostic built from the token after var instead of var itself
ParseVariablesDeclaration_NextToken ==
    /\ Running("parseVariablesDeclaration", "start")
    /\ IF nextToken.type # "NEWLINE"
       THEN Step(P, Call("skipVar", NoLocals, "skipUntilNextStatement", NoLocals), ret, ast,
                 pushError(newParsingError("ExpectedNewLine", <<"Expected New Line">>,
                                           nextToken)))
       ELSE SkipOverVar(errors)

ParseVariablesDeclaration ==
    /\ Running("parseVariablesDeclaration", "start")
    /\ IF nextToken.type # "NEWLINE"
       THEN Step(P, Call("skipVar", NoLocals, "skipUntilNextStatement", NoLocals), ret, ast,
                 pushError(newParsingError("ExpectedNewLine", <<"Expected New Line">>,
                                           currentToken)))
       ELSE SkipOverVar(errors)

ParseVariablesSkipVar ==
    /\ Running("parseVariablesDeclaration", "skipVar")
    /\ SkipOverVar(errors)

ParseVariablesAfterNewLines ==
    /\ Running("parseVariablesDeclaration", "afterNewLines")
    /\ LET p == advanceToken(P)
       IN  Step(p, Goto("while", [stmt |-> VariablesStatement(p.currentToken),
                                  variables |-> <<>>]), ret, ast, errors)

ParseVariablesWhile ==
    /\ Running("parseVariablesDeclaration", "while")
    /\ IF currentToken.type = "IDENTIFIER"
       THEN Step(P, Call("afterDeclaration", Top.l, "parseVariableStatement", NoLocals),
                 ret, ast, errors)
       ELSE Step(P, Popped, [Top.l.stmt EXCEPT !.declarations = Top.l.variables], ast, errors)

\* declarations collected newest first
ParseVariablesAfterDeclaration_Unshift ==
    /\ Running("parseVariablesDeclaration", "afterDeclaration")
    /\ IF ret.node = "null"
       THEN Step(P, Call("return", Top.l, "skipUntilNextStatement", NoLocals), ret, ast,
                 pushError(newParsingError("ExpectedVarDeclaration",
                                           <<"Expected variable declaration">>, currentToken)))
       ELSE Step(P, Call("afterDeclarationNewLines",
                         [Top.l EXCEPT !.variables = <<ret>> \o Top.l.variables],
                         "consumeNewLines", NoLocals), ret, ast, errors)

ParseVariablesAfterDeclaration ==
    /\ Running("parseVariablesDeclaration", "afterDeclaration")
    /\ IF ret.node = "null"
       THEN Step(P, Call("return", Top.l, "skipUntilNextStatement", NoLocals), ret, ast,
                 pushError(newParsingError("ExpectedVarDeclaration",
                                           <<"Expected variable declaration">>, currentToken)))
       ELSE Step(P, Call("afterDeclarationNewLines",
                         [Top.l EXCEPT !.variables = Append(Top.l.variables, ret)],
                         "consumeNewLines", NoLocals), ret, ast, errors)

ParseVariablesReturn ==
    /\ Running("parseVariablesDeclaration", "return")
    /\ Step(P, Popped, Null, ast, errors)

ParseVariablesNextDeclaration ==
    /\ Running("parseVariablesDeclaration", "afterDeclarationNewLines")
    /\ Step(IF nextToken.type = "IDENTIFIER" THEN advanceToken(P) ELSE P,
            Goto("while", Top.l), ret, ast, errors)

(***************************************************************************)
(* parseVariableStatement                                                  *)
(***************************************************************************)

ParseVariableStatement ==
    /\ Running("parseVariableStatement", "start")
    /\ LET stmt == VarDeclaration(currentToken)
           p1 == advanceToken(P)
       IN  IF p1.currentToken.type # "ASSIGN"
           THEN Step(p1, Call("return", NoLocals, "skipUntilNextStatement", NoLocals), ret, ast,
                     pushError(newParsingError("ExpectedEqualSign",
                         <<"Expected '=' after identifier, got ", p1.currentToken.literal>>,
                         p1.currentToken)))
           ELSE Step(advanceToken(p1),
                     Call("afterExpression", [stmt |-> stmt], "parseExpression",
                          [curPrecedence |-> MIN]),
                     ret, ast, errors)

ParseVariableStatementReturn ==
    /\ Running("parseVariableStatement", "return")
    /\ Step(P, Popped, Null, ast, errors)

ParseVariableStatementValue ==
    /\ Running("parseVariableStatement", "afterExpression")
    /\ Step(P, Popped, [Top.l.stmt EXCEPT !.value = ret], ast, errors)

(***************************************************************************)
(* parseExpression, parseInfixExpression                                   *)
(***************************************************************************)

\* parseExpression that reports nothing when no prefix function is registered
ParseExpression_Silent ==
    /\ Running("parseExpression", "start")
    /\ IF currentToken.type \notin prefixTable
       THEN Step(P, Call("return", Top.l, "skipUntilNextStatement", NoLocals), ret, ast, errors)
       ELSE Step(P, Goto("while", [curPrecedence |-> Top.l.curPrecedence,
                                   exp |-> parsePrefix(currentToken)]), ret, ast, errors)

ParseExpression ==
    /\ Running("parseExpression", "start")
    /\ IF currentToken.type \notin prefixTable
       THEN Step(P, Call("return", Top.l, "skipUntilNextStatement", NoLocals), ret, ast,
                 pushError(newParsingError("NoPrefixFound",
                     <<"No prefix parser for token ", currentToken.type>>, currentToken)))
       ELSE Step(P, Goto("while", [curPrecedence |-> Top.l.curPrecedence,
                                   exp |-> parsePrefix(currentToken)]), ret, ast, errors)

ParseExpressionReturn ==
    /\ Running("parseExpression", "return")
    /\ Step(P, Popped, Null, ast, errors)

ParseExpressionWhile ==
    /\ Running("parseExpression", "while")
    /\ IF nextToken.type # "SEMICOLON" /\ Top.l.curPrecedence < getPrecedence(nextToken)
       THEN IF nextToken.type \notin infixTable
            THEN Step(P, Popped, Top.l.exp, ast, errors)
            ELSE Step(advanceToken(P),
                      Call("afterInfix", Top.l, "parseInfixExpression", [left |-> Top.l.exp]),
                      ret, ast, errors)
       ELSE Step(P, Popped, Top.l.exp, ast, errors)

ParseExpressionAfterInfix ==
    /\ Running("parseExpression", "afterInfix")
    /\ Step(P, Goto("while", [Top.l EXCEPT !.exp = ret]), ret, ast, errors)

ParseInfixExpression ==
    /\ Running("parseInfixExpression", "start")
    /\ Step(advanceToken(P),
            Call("afterRight", [exp |-> InfixExpression(currentToken, Top.l.left)],
                 "parseExpression", [curPrecedence |-> getPrecedence(currentToken)]),
            ret, ast, errors)

ParseInfixExpressionReturn ==
    /\ Running("parseInfixExpression", "afterRight")
    /\ Step(P, Popped, [Top.l.exp EXCEPT !.right = ret], ast, errors)

(***************************************************************************)
(* Specification                                                           *)
(***************************************************************************)

Init ==
    \E words \in Inputs, gap \in {<<>>, <<" ">>} :
        LET p == NewParser(Join(words, gap))
        IN  /\ gap = <<>> => Separable(words)
            /\ source = words
            /\ lexer = p.lexer
            /\ currentToken = p.currentToken
            /\ nextToken = p.nextToken
            /\ status = IF p.threw THEN "threw" ELSE "ready"
            /\ ast = <<>>
            /\ errors = <<>>
            /\ stack = <<>>
            /\ ret = Null
            /\ result = Null
            /\ calls = 0
            /\ scanner = L1_NewLexer(<<>>)
            /\ trace = <<>>

Next ==
    \/ ParseProgramCall
    \/ ParseProgramWhile
    \/ ParseProgramAfterStatement
    \/ ParseStatement
    \/ ParseStatementReturn
    \/ SkipUntilNextStatement
    \/ ConsumeNewLines
    \/ ParseVariablesDeclaration
    \/ ParseVariablesSkipVar
    \/ ParseVariablesAfterNewLines
    \/ ParseVariablesWhile
    \/ ParseVariablesAfterDeclaration
    \/ ParseVariablesReturn
    \/ ParseVariablesNextDeclaration
    \/ ParseVariableStatement
    \/ ParseVariableStatementReturn
    \/ ParseVariableStatementValue
    \/ ParseExpression
    \/ ParseExpressionReturn
    \/ ParseExpressionWhile
    \/ ParseExpressionAfterInfix
    \/ ParseInfixExpression
    \/ ParseInfixExpressionReturn

Spec == Init /\ [][Next]_vars

(***************************************************************************)
(* The earlier Lexer on its own: a Lexer is built over a text and its two  *)
(* public methods are called in any order.  trace keeps, for every call,   *)
(* the method, the token returned and whether the call threw.              *)
(***************************************************************************)

LexInit ==
    \E words \in LexInputs :
        /\ source = words
        /\ scanner = L1_NewLexer(Join(words, <<" ">>))
        /\ trace = <<>>
        /\ lexer = NewLexer(<<>>)
        /\ currentToken = Null
        /\ nextToken = Null
        /\ status = "idle"
        /\ ast = <<>>
        /\ errors = <<>>
        /\ stack = <<>>
        /\ ret = Null
        /\ result = Null
        /\ calls = 0

\* the trace with one more call: the method and what it returned
Called(op, r) == Append(trace, [op |-> op, tok |-> r.tok, threw |-> r.threw])

NextTokenCall ==
    /\ Len(trace) < MaxScans
    /\ LET r == L1_nextToken(scanner)
       IN  /\ scanner' = r.lexer
           /\ trace' = Called("nextToken", r)
    /\ UNCHANGED <<source, lexer, currentToken, nextToken, ast, errors, stack, ret, status,
                   result, calls>>

LookAheadCall ==
    /\ Len(trace) < MaxScans
    /\ LET r == L1_lookAhead(scanner)
       IN  /\ scanner' = r.lexer
           /\ trace' = Called("lookAhead", r)
    /\ UNCHANGED <<source, lexer, currentToken, nextToken, ast, errors, stack, ret, status,
                   result, calls>>

LexNext ==
    \/ NextTokenCall
    \/ LookAheadCall

LexSpec == LexInit /\ [][LexNext]_vars

(***************************************************************************)
(* Reading the results                                                     *)
(***************************************************************************)

Returned == status = "returned"

\* an expression without its tokens
RECURSIVE Shape(_)
Shape(e) ==
    CASE e.node = "NumberNode" -> <<"number", e.value>>
      [] e.node = "Identifier" -> <<"identifier", e.value>>
      [] e.node = "InfixExpression" -> <<"infix", e.operator, Shape(e.left), Shape(e.right)>>
      [] OTHER -> <<e.node>>

\* a statement of the program as the declared names and their initializers
DeclarationsOf(stmt) ==
    [i \in DOMAIN stmt.declarations |->
        <<stmt.declarations[i].node, stmt.declarations[i].identifier.value,
          Shape(stmt.declarations[i].value)>>]

\* the words of a text that are not newlines
RECURSIVE NoNewLines(_)
NoNewLines(words) ==
    IF words = <<>> THEN <<>>
    ELSE IF words[1] = wNL THEN NoNewLines(Tail(words))
    ELSE <<words[1]>> \o NoNewLines(Tail(words))

\* a written initializer of one word: a number or a name
WrittenValue(word) ==
    IF isDigit(word[1]) THEN <<"number", word>> ELSE <<"identifier", word>>

\* the declarations written in a block of ident = value lines
WrittenDeclarations(block) ==
    LET w == Tail(NoNewLines(block))
    IN  [k \in 1..(Len(w) \div 3) |->
            <<"VarDeclaration", w[3 * k - 2], WrittenValue(w[3 * k])>>]

\* a text of var blocks cut before every var keyword but the first
RECURSIVE BlocksOf(_)
BlocksOf(ws) ==
    LET later == {i \in 2..Len(ws) : ws[i] \in {wVar, wVariables}}
    IN  IF later = {} THEN <<ws>>
        ELSE LET n == CHOOSE i \in later : \A j \in later : i <= j
             IN  <<SubSeq(ws, 1, n - 1)>> \o BlocksOf(SubSeq(ws, n, Len(ws)))

\* the tree of a written expression operand (op operand)*: split at the last
\* operator of the lowest precedence
LastOf(ws, ops) == IF \E i \in DOMAIN ws : ws[i] \in ops
                   THEN CHOOSE i \in DOMAIN ws : ws[i] \in ops /\ \A j \in DOMAIN ws : ws[j] \in ops => j <= i
                   ELSE 0

RECURSIVE WrittenTree(_)
WrittenTree(ws) ==
    LET a == LastOf(ws, {wPlus, wMinus})
        m == LastOf(ws, {wTimes, wDiv})
        i == IF a # 0 THEN a ELSE m
    IN  IF i = 0 THEN <<"number", ws[1]>>
        ELSE <<"infix", ws[i], WrittenTree(SubSeq(ws, 1, i - 1)),
               WrittenTree(SubSeq(ws, i + 1, Len(ws)))>>

ArithExpressions ==
    {ExprHead \o ExprWords(ops, 1) : ops \in SeqsUpTo(ArithOps, MaxOperands - 1)}

\* the first word of a text that is not a newline, <<>> when there is none
FirstWord(words) == IF NoNewLines(words) = <<>> THEN <<>> ELSE NoNewLines(words)[1]

StatementWords == {wVar, wVariables, wConst}

(***************************************************************************)
(* Properties                                                              *)
(***************************************************************************)

\* C1: a var block of n >= 1 newline-separated declarations ident = number
\* parses without diagnostic into exactly one VariablesStatement whose
\* declarations are the n written ones, in source order, each with the written
\* name and a NumberNode holding the written digits.
C1_SimpleVarBlock ==
    (Returned /\ source \in SimpleVarBlocks) =>
        /\ errors = <<>>
        /\ result = FALSE
        /\ Len(ast) = 1
        /\ ast[1].node = "VariablesStatement"
        /\ DeclarationsOf(ast[1]) = WrittenDeclarations(source)

C1_Witness ==
    /\ Returned
    /\ source \in SimpleVarBlocks
    /\ Len(ast) = 1
    /\ Len(ast[1].declarations) >= 2
    /\ ast[1].declarations[1].identifier.value # ast[1].declarations[2].identifier.value

\* C2: an initializer of numbers and + - * / is consumed whole and parsed into
\* the tree in which * and / bind tighter than + and - and equal precedence
\* associates to the left.
C2_PrecedenceAndAssociativity ==
    (Returned /\ source \in ArithExpressions) =>
        /\ errors = <<>>
        /\ Len(ast) = 1
        /\ Len(ast[1].declarations) = 1
        /\ Shape(ast[1].declarations[1].value)
              = WrittenTree(SubSeq(source, Len(ExprHead) + 1, Len(source)))
        /\ nextToken.type = "EOF"

C2_Witness ==
    /\ Returned
    /\ source \in ArithExpressions
    /\ Len(ast) = 1
    /\ Len(ast[1].declarations) = 1
    /\ LET v == ast[1].declarations[1].value
       IN  /\ v.node = "InfixExpression"
           /\ v.operator = wMinus
           /\ v.left.node = "InfixExpression"
           /\ v.left.operator = wMinus
           /\ v.right.node = "InfixExpression"
           /\ v.right.operator = wTimes

\* C3: ^ is a binary infix operator binding tighter than + and -: the
\* initializer a + b ^ c yields InfixExpression(+, a, InfixExpression(^, b, c))
\* and no diagnostic.
C3_PowBindsTighter ==
    (Returned /\ source \in Expressions /\ Len(source) = Len(ExprHead) + 5
              /\ source[Len(ExprHead) + 2] = wPlus /\ source[Len(ExprHead) + 4] = wPow) =>
        /\ errors = <<>>
        /\ Len(ast) = 1
        /\ Len(ast[1].declarations) = 1
        /\ Shape(ast[1].declarations[1].value)
              = <<"infix", wPlus, <<"number", Operand(1)>>,
                  <<"infix", wPow, <<"number", Operand(2)>>, <<"number", Operand(3)>>>>>>

\* C4: parseProgram returns true exactly when the diagnostics list is
\* non-empty at the moment it returns.
C4_ReturnsWhetherErrors ==
    Returned => (result = TRUE <=> Len(errors) # 0)

C4_Witness == Returned /\ result = TRUE /\ Len(errors) >= 2

\* C5: parseProgram terminates for every finite input text, also one with
\* characters no token rule matches: every loop moves the token cursor forward
\* until EOF is reached.
\* The parser is sequential and deterministic, so it terminates when every
\* iteration of a loop moves the scanner: an iteration of the synchronization
\* loop that leaves the read position where it was repeats for ever.
C5_LoopsMoveForward ==
    (/\ status = "running"
     /\ \/ Running("skipUntilNextStatement", "start") /\ ~isStatement(nextToken.type)
        \/ Running("consumeNewLines", "start") /\ nextToken.type = "NEWLINE"
        \/ Running("parseProgram", "afterStatement")
        \/ Running("parseVariablesDeclaration", "afterDeclarationNewLines")
              /\ nextToken.type = "IDENTIFIER") =>
        advanceToken(P).lexer.readPosition > lexer.readPosition

\* C6: a var block that is well formed except for one declaration lacking '='
\* yields exactly one diagnostic, of kind ExpectedEqualSign.
C6_OneDiagnosticForMissingEqual ==
    (Returned /\ source \in MissingEqualBlocks) =>
        /\ Len(errors) = 1
        /\ errors[1].type = "ExpectedEqualSign"

\* C7: after a recoverable diagnostic the parse resumes at the next statement:
\* a well-formed var block that follows a malformed construct appears in the
\* result as its own VariablesStatement holding exactly its own declarations.
C7_LaterBlockIsParsed ==
    \A m \in MalformedConstructs, b \in LaterBlocks :
        (Returned /\ source = m \o b) =>
            /\ Len(ast) >= 1
            /\ ast[Len(ast)].node = "VariablesStatement"
            /\ DeclarationsOf(ast[Len(ast)]) = WrittenDeclarations(b)

\* C8: when the first token that is not a NEWLINE is neither a statement
\* keyword nor EOF, parseProgram records an UnexpectedExpression diagnostic
\* carrying that token and returns true, also when it is the last token.
C8_StrayTokenIsReported ==
    (Returned /\ source \in Generic /\ FirstWord(source) \notin StatementWords \cup {<<>>}) =>
        /\ result = TRUE
        /\ \E i \in DOMAIN errors :
              /\ errors[i].type = "UnexpectedExpression"
              /\ errors[i].token.literal = FirstWord(source)

\* C9: var ident = number on one line records exactly one diagnostic, of kind
\* ExpectedNewLine, carrying the var token and that token's line.
C9_ExpectedNewLine ==
    (Returned /\ source \in VarWithoutNewLine) =>
        /\ Len(errors) = 1
        /\ errors[1].type = "ExpectedNewLine"
        /\ errors[1].token.type \in {"VAR", "VARIABLES"}
        /\ errors[1].token.literal = FirstWord(source)
        /\ errors[1].token.lineNumber = Len(source) - 3

C9_Witness ==
    /\ Returned
    /\ source \in VarWithoutNewLine
    /\ Len(errors) = 1
    /\ errors[1].token.lineNumber = 2

\* C10: a declaration whose ':' is followed by a token that is no type name
\* records exactly one diagnostic, of kind ExpectedTypeAnnotation, whose row
\* is the source line of that declaration.
C10_ExpectedTypeAnnotation ==
    (Returned /\ source \in BadTypeAnnotations) =>
        /\ Len(errors) = 1
        /\ errors[1].type = "ExpectedTypeAnnotation"
        /\ "row" \in DOMAIN errors[1]
        /\ errors[1].row = Len(source) - 5

\* a field holding neither a node: null, or never assigned
IsAbsent(v) == v.node \in {"null", "undefined"}

\* C11: a declaration ident : typeName = expr with typeName a type-name
\* keyword records no diagnostic and its VarDeclaration has a TypeExpression
\* whose literal is the written type name; a declaration written without an
\* annotation has no type.
C11_TypeAnnotationIsParsed ==
    /\ (Returned /\ source \in TypeAnnotations) =>
           /\ errors = <<>>
           /\ Len(ast) = 1
           /\ Len(ast[1].declarations) = 1
           /\ ast[1].declarations[1].identifier.value = source[3]
           /\ ast[1].declarations[1].type.node = "TypeExpression"
           /\ ast[1].declarations[1].type.literal = source[5]
    /\ (Returned /\ source \in SimpleVarBlocks) =>
           \A i \in DOMAIN ast :
               \A j \in DOMAIN ast[i].declarations : IsAbsent(ast[i].declarations[j].type)

\* C12: var blocks never merge: a text of k >= 1 consecutive well-formed var
\* blocks gives exactly k VariablesStatements in source order, each holding
\* exactly the declarations written under its own keyword.
C12_BlocksDoNotMerge ==
    (Returned /\ source \in ConsecutiveBlocks) =>
        /\ Len(ast) = Len(BlocksOf(source))
        /\ \A i \in DOMAIN ast :
              /\ ast[i].node = "VariablesStatement"
              /\ DeclarationsOf(ast[i]) = WrittenDeclarations(BlocksOf(source)[i])

\* C13: newlines directly after a binary operator do not end the expression:
\* x = a op NEWLINE b parses to InfixExpression(op, a, b), as x = a op b does,
\* and records no diagnostic.
C13_NewLineAfterOperator ==
    (Returned /\ source \in NewLineAfterOperator) =>
        /\ errors = <<>>
        /\ Len(ast) = 1
        /\ Len(ast[1].declarations) = 1
        /\ Shape(ast[1].declarations[1].value)
              = <<"infix", source[Len(ExprHead) + 2], <<"number", w1>>, <<"number", w23>>>>

\* what the calls of one method returned, in order
RECURSIVE Returns(_, _)
Returns(calls_, op) ==
    IF calls_ = <<>> THEN <<>>
    ELSE (IF calls_[1].op = op THEN <<[tok |-> calls_[1].tok, threw |-> calls_[1].threw]>>
          ELSE <<>>) \o Returns(Tail(calls_), op)

\* what n calls of nextToken return on a Lexer that is called in no other way
RECURSIVE Scan(_, _)
Scan(sc, n) ==
    IF n = 0 THEN <<>>
    ELSE LET r == L1_nextToken(sc)
         IN  <<[tok |-> r.tok, threw |-> r.threw]>> \o Scan(r.lexer, n - 1)

\* C14: lookAhead does not advance the scanner: the token it returns equals
\* (kind, literal, position) the token the immediately following nextToken
\* returns, and the nextToken calls return the same tokens whether or not
\* lookAhead calls are interleaved.
C14_LookAheadDoesNotAdvance ==
    (\A i \in DOMAIN trace : ~trace[i].threw) =>
        /\ \A i \in 1..(Len(trace) - 1) :
              (trace[i].op = "lookAhead" /\ trace[i + 1].op = "nextToken") =>
                  trace[i + 1].tok = trace[i].tok
        /\ Returns(trace, "nextToken")
              = Scan(L1_NewLexer(Join(source, <<" ">>)), Len(Returns(trace, "nextToken")))

IsEOF(call) == ~call.threw /\ call.tok.type = "EOF"

\* C15: end of stream is stable: once a call has returned EOF, every later
\* call returns EOF with an empty literal and nothing else.
C15_EOFIsStable ==
    \A i \in DOMAIN trace : \A j \in DOMAIN trace :
        (i < j /\ IsEOF(trace[i])) => (IsEOF(trace[j]) /\ trace[j].tok.literal = <<>>)

C15_Witness ==
    /\ Len(trace) >= 3
    /\ ~trace[1].threw
    /\ trace[1].tok.type = "IDENTIFIER"
    /\ IsEOF(trace[2])
    /\ IsEOF(trace[3])
    /\ trace[3].op = "nextToken"

\* word is w in some mix of upper and lower case
IsCasingOf(word, w) ==
    /\ Len(word) = Len(w)
    /\ \A k \in DOMAIN w : word[k] \in {w[k], toUpperChar(w[k])}

\* C16: lib, libext and archivo, in any mix of upper and lower case and as a
\* whole identifier, make the call that scans them raise the fatal failure:
\* the call returns no token.  (Call i scans word i of the text.)
C16_DisallowedKeywordThrows ==
    \A i \in DOMAIN trace :
        (i <= Len(source) /\ \E w \in DisallowedWords : IsCasingOf(source[i], w)) =>
            (trace[i].threw /\ trace[i].tok = Null)

C16_Witness ==
    /\ Len(trace) >= 1
    /\ IsCasingOf(source[1], wArchivo)
    /\ source[1][1] = "A"
    /\ source[1][7] = "O"
    /\ source[1][2] = "r"
    /\ trace[1].threw

\* the text holds a disallowed keyword as a whole word
HasDisallowed(words) ==
    \E i \in DOMAIN words : \E w \in DisallowedWords : IsCasingOf(words[i], w)

\* C17: a disallowed keyword anywhere in the text (the texts here hold no
\* comment) is a hard stop of the whole parse: no parse of the text completes
\* normally, parseProgram returns no result, and a failure raised by the
\* scanner leaves Parser construction or parseProgram with nothing left running.
C17_DisallowedKeywordStopsTheParse ==
    HasDisallowed(source) =>
        /\ ~Returned
        /\ result = Null
        /\ status = "threw" => stack = <<>>

C17_Witness ==
    /\ HasDisallowed(source)
    /\ source[1] = wVar
    /\ status = "threw"
    /\ calls = 1
    /\ currentToken.type = "NEWLINE"
    /\ currentToken.lineNumber = 2

\* the kind the keyword table gives a lexeme: that of the keyword it is a
\* casing of, IDENTIFIER when it is a casing of none
WrittenKind(word, table) ==
    IF \E k \in table : IsCasingOf(word, k[1])
    THEN (CHOOSE k \in table : IsCasingOf(word, k[1]))[2]
    ELSE "IDENTIFIER"

\* C18: an identifier-shaped lexeme (here: other than the disallowed keywords)
\* is returned with the keyword's kind exactly when its lower-case form is a
\* defined keyword, with kind IDENTIFIER otherwise, and with the lexeme as
\* written for literal.  (Call i scans word i of a text without comments.)
C18_KeywordOrIdentifier ==
    \A i \in DOMAIN trace :
        (/\ i <= Len(source)
         /\ source \notin CommentTexts
         /\ isLetter(source[i][1])
         /\ ~\E w \in DisallowedWords : IsCasingOf(source[i], w)) =>
            /\ ~trace[i].threw
            /\ trace[i].tok.literal = source[i]
            /\ trace[i].tok.type = WrittenKind(source[i], L1_keywords)

\* C19: a character that starts no token rule yields one ILLEGAL token whose
\* literal is that character, and the next call scans from the character
\* after it.  The Parser's constructor calls nextToken twice: on a text of
\* such characters the two tokens it holds are the first character's ILLEGAL
\* and then the second character's ILLEGAL, or EOF when there is no second.
C19_IllegalCharacterIsConsumed ==
    (status = "ready" /\ source \in IllegalTexts) =>
        /\ currentToken.type = "ILLEGAL"
        /\ currentToken.literal = source[1]
        /\ nextToken.type = (IF Len(source) >= 2 THEN "ILLEGAL" ELSE "EOF")
        /\ nextToken.literal = (IF Len(source) >= 2 THEN source[2] ELSE <<>>)

\* an expression in which every InfixExpression has both operands
RECURSIVE IsComplete(_)
IsComplete(e) ==
    CASE e.node = "InfixExpression" ->
            /\ ~IsAbsent(e.left) /\ IsComplete(e.left)
            /\ ~IsAbsent(e.right) /\ IsComplete(e.right)
      [] OTHER -> ~IsAbsent(e)

\* C20: when parseProgram returns with an empty list of diagnostics, every
\* VarDeclaration of the program has an initializer and every InfixExpression
\* in it has a right operand; a null operand or initializer anywhere in the
\* returned program comes with at least one diagnostic.
C20_NoDiagnosticsNoNull ==
    (Returned /\ errors = <<>>) =>
        \A i \in DOMAIN ast : \A j \in DOMAIN ast[i].declarations :
            IsComplete(ast[i].declarations[j].value)

\* parseProgram returned without diagnostics a declaration whose initializer
\* is an InfixExpression with an InfixExpression for right operand
C20_Witness ==
    /\ Returned /\ errors = <<>>
    /\ \E i \in DOMAIN ast : \E j \in DOMAIN ast[i].declarations :
        LET v == ast[i].declarations[j].value
        IN  /\ v.node = "InfixExpression"
            /\ v.right.node = "InfixExpression"
            /\ v.right.right.node = "NumberNode"

\* C21: a VariablesStatement without declarations in the returned program
\* comes with at least one diagnostic.
C21_EmptyBlockIsReported ==
    (Returned /\ \E i \in DOMAIN ast : ast[i].node = "VariablesStatement"
                                         /\ ast[i].declarations = <<>>) =>
        errors # <<>>

\* pushErrorAndRecover is running: its skipUntilNextStatement is on the stack
Recovering == Len(stack) > 0 /\ Top.fn = "skipUntilNextStatement"

\* C22: pushErrorAndRecover appends exactly its one diagnostic when it is
\* entered, changes neither list while it skips, and when it returns the next
\* token is EOF or of a kind that starts a statement.
C22_RecoverStopsBeforeStatement ==
    [][/\ (~Recovering /\ Recovering') =>
            /\ Len(errors') = Len(errors) + 1
            /\ SubSeq(errors', 1, Len(errors)) = errors
            /\ ast' = ast
       /\ Recovering => (errors' = errors /\ ast' = ast)
       /\ (Recovering /\ ~Recovering' /\ status' = "running") =>
            /\ nextToken'.type \in {"EOF", "VAR", "VARIABLES", "CONST", "CONSTANTES",
                                    "RETORNA", "SUBRUTINA", "TIPOS", "TIPO", "INICIO"}
            /\ nextToken' = nextToken]_vars

\* pushErrorAndRecover has just returned to parseStatement after it skipped
\* over tokens up to a later var, with a statement already in the program
C22_Witness ==
    /\ Running("parseStatement", "return")
    /\ nextToken.type = "VAR"
    /\ currentToken.type = "NEWLINE"
    /\ Len(errors) = 1
    /\ Len(ast) = 1

\* the tree of a written initializer: one operand, or operand op operand
WrittenInitializer(ws) ==
    IF Len(ws) = 1 THEN WrittenValue(ws[1])
    ELSE <<"infix", ws[2], WrittenValue(ws[1]), WrittenValue(ws[3])>>

\* C23: a declaration whose initializer ends with an identifier is parsed as
\* one VarDeclaration whose initializer contains the Identifier, and records
\* no diagnostic: the identifier does not start a new declaration.
C23_IdentifierEndsInitializer ==
    (Returned /\ source \in IdentifierEnded) =>
        /\ errors = <<>>
        /\ Len(ast) = 1
        /\ ast[1].node = "VariablesStatement"
        /\ DeclarationsOf(ast[1]) =
              <<<<"VarDeclaration", wX,
                  WrittenInitializer(SubSeq(NoNewLines(source), 4, Len(NoNewLines(source))))>>>>

\* C24: the precedence table and the infix table agree on the kind of every
\* token the parser looks at, so parseExpression never finds a token whose
\* precedence continues the loop and for which no infix function is registered.
C24_PrecedenceHasInfix ==
    /\ status # "threw" =>
          ((getPrecedence(nextToken) > MIN) <=> (nextToken.type \in infixTable))
    /\ ~(/\ Running("parseExpression", "while")
         /\ nextToken.type # "SEMICOLON"
         /\ Top.l.curPrecedence < getPrecedence(nextToken)
         /\ nextToken.type \notin infixTable)

\* the words of a text outside its comments: from each marker up to, and
\* without, the newline that ends the line
RECURSIVE StripComments(_, _)
StripComments(words, inComment) ==
    IF words = <<>> THEN <<>>
    ELSE IF words[1] = wNL THEN <<wNL>> \o StripComments(Tail(words), FALSE)
    ELSE IF inComment \/ words[1] = wSlashes THEN StripComments(Tail(words), TRUE)
    ELSE <<words[1]>> \o StripComments(Tail(words), FALSE)

\* kind and literal of what each call returned
KindsAndLiterals(calls_) ==
    [i \in DOMAIN calls_ |-> <<calls_[i].tok.type, calls_[i].tok.literal>>]

\* C25: characters inside a line comment produce no tokens: the kinds and
\* literals nextToken returns are those of the text outside the spans from
\* the marker to the end of the line, also with consecutive comment lines and
\* with a comment that runs to the end of the input.
C25_CommentsProduceNoTokens ==
    (\A i \in DOMAIN trace : trace[i].op = "nextToken" /\ ~trace[i].threw) =>
        KindsAndLiterals(trace)
            = KindsAndLiterals(Scan(L1_NewLexer(Join(StripComments(source, FALSE), <<" ">>)),
                                    Len(trace)))

\* C26: the newline that ends a comment line is delivered as a NEWLINE token.
\* For var, a comment, NEWLINE and a declaration the Parser starts with the
\* tokens var and NEWLINE, as it does without the comment, and the parse is
\* that of the text outside the comment: no ExpectedNewLine, one block with
\* the declaration.
C26_CommentKeepsNewLine ==
    source \in CommentAfterVar =>
        /\ status = "ready" =>
              /\ currentToken.type \in {"VAR", "VARIABLES"}
              /\ nextToken.type = "NEWLINE"
        /\ Returned =>
              /\ \A i \in DOMAIN errors : errors[i].type # "ExpectedNewLine"
              /\ Len(ast) = 1
              /\ DeclarationsOf(ast[1]) = WrittenDeclarations(StripComments(source, FALSE))

\* the offset in the text of the second word of a text of words
SecondWordAt(text, words) ==
    IF text[Len(words[1]) + 1] = " " THEN Len(words[1]) + 1 ELSE Len(words[1])

\* the line of the character at an offset: 1 plus the newlines before it
LineAt(text, off) == 1 + Cardinality({k \in 1..off : text[k] = "\n"})

\* the distance of the character at an offset from the start of its line
ColumnAt(text, off) ==
    LET nls == {k \in 1..off : text[k] = "\n"}
    IN  IF nls = {} THEN off ELSE off - (CHOOSE k \in nls : \A j \in nls : j <= k)

\* C27: every token of the position-tracking Lexer records the line of its
\* first character (1 plus the newlines before it) and the distance of that
\* character from the start of the line, for symbols, identifiers and numbers
\* alike.  The Parser's constructor holds the tokens of the first two words.
C27_TokenLineAndColumn ==
    (/\ status = "ready"
     /\ Len(source) >= 2
     /\ \A i \in 1..2 : source[i] \notin {wSlashes, wAt, wDollar}) =>
        /\ currentToken.literal = source[1]
        /\ currentToken.lineNumber = 1
        /\ currentToken.column = 0
        /\ nextToken.literal = source[2]
        /\ nextToken.lineNumber = LineAt(lexer.input, SecondWordAt(lexer.input, source))
        /\ nextToken.column = ColumnAt(lexer.input, SecondWordAt(lexer.input, source))

\* C28: the token a VariablesStatement retains is the var or variables
\* keyword that opened its block, in every program parseProgram returns.
C28_StatementKeepsKeywordToken ==
    Returned =>
        \A i \in DOMAIN ast :
            ast[i].node = "VariablesStatement" =>
                /\ ast[i].token.type \in {"VAR", "VARIABLES"}
                /\ toLowerCase(ast[i].token.literal) \in {wVar, wVariables}
                /\ ast[i].token.literal \in Range(source)

\* the text the Lexer was constructed on
SourceText == lexer.input

\* the pair of tokens and the scanner after n more tokens were pulled, each
\* one shifting next into current; a failure of the scanner ends the pulling
\* with current already shifted
RECURSIVE Pulled(_, _)
Pulled(w, n) ==
    IF n = 0 \/ w.threw THEN w
    ELSE LET r == LexNextToken(w.lexer)
         IN  Pulled([lexer |-> r.lexer, currentToken |-> w.nextToken,
                     nextToken |-> IF r.threw THEN w.nextToken ELSE r.tok,
                     threw |-> r.threw], n - 1)

\* the most calls of advanceToken between two states of the parse
MaxAdvances == 2

\* C29: the Parser holds two tokens, current and next.  After construction
\* they are the first two tokens of the scanner; every later change of the
\* pair is by advanceToken alone: current becomes the old next and next
\* becomes the one token the scanner returns next, so that the pair moves
\* along the scanner's stream with no token skipped or repeated (when the
\* scanner fails, current has already become the old next).
C29_TwoTokensInStreamOrder ==
    /\ (status = "ready" =>
            LET r1 == LexNextToken(NewLexer(SourceText))
                r2 == LexNextToken(r1.lexer)
            IN  currentToken = r1.tok /\ nextToken = r2.tok /\ lexer = r2.lexer)
    /\ [][(<<currentToken, nextToken, lexer>>' # <<currentToken, nextToken, lexer>>) =>
            \E n \in 1..MaxAdvances :
                LET w == Pulled([lexer |-> lexer, currentToken |-> currentToken,
                                 nextToken |-> nextToken, threw |-> FALSE], n)
                IN  /\ currentToken' = w.currentToken
                    /\ nextToken' = w.nextToken
                    /\ lexer' = w.lexer
                    /\ status' = (IF w.threw THEN "threw" ELSE "running")]_vars

\* the parse of var NEWLINE x = a + ... has advanced to hold the fifth and
\* sixth token of the text
C29_Witness ==
    /\ status = "running"
    /\ Len(source) >= 6
    /\ SubSeq(source, 1, 4) = <<wVar, wNL, wX, wEq>>
    /\ currentToken.type = "NUMBER"
    /\ currentToken.literal = source[5]
    /\ nextToken.type = "PLUS"
    /\ nextToken.literal = source[6]

\* list a is the beginning of list b
IsPrefix(a, b) == Len(a) <= Len(b) /\ SubSeq(b, 1, Len(a)) = a

\* token a is not after token b in the text, by the recorded line and column
NotAfter(a, b) ==
    \/ a.lineNumber < b.lineNumber
    \/ a.lineNumber = b.lineNumber /\ a.column <= b.column

\* C30: the diagnostics list and the statement list only grow at their end,
\* the diagnostics are in the order of the positions of their tokens, and
\* once parseProgram has returned a further call changes neither list.
C30_ListsAreAppendOnly ==
    /\ [](\A i \in DOMAIN errors : \A j \in DOMAIN errors :
              i < j => NotAfter(errors[i].token, errors[j].token))
    /\ [][/\ IsPrefix(errors, errors')
          /\ IsPrefix(ast, ast')
          /\ (calls >= 2 \/ (calls = 1 /\ status = "returned")) =>
                (errors' = errors /\ ast' = ast)]_vars

\* a second parseProgram call has returned on a parser that holds a statement
\* and two diagnostics from different places of the text
C30_Witness ==
    /\ Returned
    /\ calls = 2
    /\ Len(ast) >= 1
    /\ Len(errors) >= 2
    /\ errors[1].token # errors[2].token

=============================================================================
